---------------------------- MODULE Spec2Model ----------------------------
(***************************************************************************)
(* Model of the evaluation and reporting pipeline of the benchmark         *)
(* repository:                                                             *)
(*   scripts/correctness_checkers.py  - evaluate_row and main              *)
(*   scripts/model_runner_baseline.py - the benchmark runner script        *)
(* A Python string is the sequence of its code points; None is a separate  *)
(* value (PyNone).  The generation service, telemetry source and clock of  *)
(* the runner are nondeterministic inputs.                                 *)
(***************************************************************************)
EXTENDS Integers, Sequences, FiniteSets, TLC

(***************************************************************************)
(* Python values: str and None.  A str is the sequence of the code points  *)
(* of its characters (ord of each), so every str of Python is a value of   *)
(* the model.                                                              *)
(***************************************************************************)
\* the characters U+0020..U+005F and U+0061..U+007E, in code point order
AsciiLow == " !\"#$%&'()*+,-./0123456789:;<=>?@ABCDEFGHIJKLMNOPQRSTUVWXYZ[\\]^_"

AsciiHigh == "abcdefghijklmnopqrstuvwxyz{|}~"

\* ord(c) of a character the model writes as a literal
ord(c) ==
    CASE c = "\t" -> 9
      [] c = "\n" -> 10
      [] c = "\r" -> 13
      [] OTHER ->
            IF \E k \in 1..Len(AsciiLow) : SubSeq(AsciiLow, k, k) = c
            THEN 31 + CHOOSE k \in 1..Len(AsciiLow) : SubSeq(AsciiLow, k, k) = c
            ELSE 96 + CHOOSE k \in 1..Len(AsciiHigh) : SubSeq(AsciiHigh, k, k) = c

\* the str a literal of the source denotes
Chars(s) == [n \in 1..Len(s) |-> ord(SubSeq(s, n, n))]

PyNone == [none |-> TRUE, s |-> <<>>]

PyStr(s) == [none |-> FALSE, s |-> s]

SetMin(S) == CHOOSE x \in S : \A y \in S : x <= y

SetMax(S) == CHOOSE x \in S : \A y \in S : x >= y

(***************************************************************************)
(* str methods used by evaluate_row, on sequences of code points, with the *)
(* tables of the Unicode database of the interpreter (Unicode 14.0).        *)
(***************************************************************************)
\* The simple lower-case mappings beyond ASCII, as <<first, last, step, d>>:
\* the code points first, first + step, .., last map to themselves plus d.
LowerRules ==
    {<<192, 214, 1, 32>>, <<216, 222, 1, 32>>, <<256, 302, 2, 1>>,
     <<306, 310, 2, 1>>, <<313, 327, 2, 1>>, <<330, 374, 2, 1>>,
     <<376, 376, 1, -121>>, <<377, 381, 2, 1>>, <<385, 385, 1, 210>>,
     <<386, 388, 2, 1>>, <<390, 390, 1, 206>>, <<391, 391, 1, 1>>,
     <<393, 394, 1, 205>>, <<395, 395, 1, 1>>, <<398, 398, 1, 79>>,
     <<399, 399, 1, 202>>, <<400, 400, 1, 203>>, <<401, 401, 1, 1>>,
     <<403, 403, 1, 205>>, <<404, 404, 1, 207>>, <<406, 406, 1, 211>>,
     <<407, 407, 1, 209>>, <<408, 408, 1, 1>>, <<412, 412, 1, 211>>,
     <<413, 413, 1, 213>>, <<415, 415, 1, 214>>, <<416, 420, 2, 1>>,
     <<422, 422, 1, 218>>, <<423, 423, 1, 1>>, <<425, 425, 1, 218>>,
     <<428, 428, 1, 1>>, <<430, 430, 1, 218>>, <<431, 431, 1, 1>>,
     <<433, 434, 1, 217>>, <<435, 437, 2, 1>>, <<439, 439, 1, 219>>,
     <<440, 440, 1, 1>>, <<444, 444, 1, 1>>, <<452, 452, 1, 2>>,
     <<453, 453, 1, 1>>, <<455, 455, 1, 2>>, <<456, 456, 1, 1>>,
     <<458, 458, 1, 2>>, <<459, 475, 2, 1>>, <<478, 494, 2, 1>>,
     <<497, 497, 1, 2>>, <<498, 500, 2, 1>>, <<502, 502, 1, -97>>,
     <<503, 503, 1, -56>>, <<504, 542, 2, 1>>, <<544, 544, 1, -130>>,
     <<546, 562, 2, 1>>, <<570, 570, 1, 10795>>, <<571, 571, 1, 1>>,
     <<573, 573, 1, -163>>, <<574, 574, 1, 10792>>, <<577, 577, 1, 1>>,
     <<579, 579, 1, -195>>, <<580, 580, 1, 69>>, <<581, 581, 1, 71>>,
     <<582, 590, 2, 1>>, <<880, 882, 2, 1>>, <<886, 886, 1, 1>>,
     <<895, 895, 1, 116>>, <<902, 902, 1, 38>>, <<904, 906, 1, 37>>,
     <<908, 908, 1, 64>>, <<910, 911, 1, 63>>, <<913, 929, 1, 32>>,
     <<931, 939, 1, 32>>, <<975, 975, 1, 8>>, <<984, 1006, 2, 1>>,
     <<1012, 1012, 1, -60>>, <<1015, 1015, 1, 1>>, <<1017, 1017, 1, -7>>,
     <<1018, 1018, 1, 1>>, <<1021, 1023, 1, -130>>, <<1024, 1039, 1, 80>>,
     <<1040, 1071, 1, 32>>, <<1120, 1152, 2, 1>>, <<1162, 1214, 2, 1>>,
     <<1216, 1216, 1, 15>>, <<1217, 1229, 2, 1>>, <<1232, 1326, 2, 1>>,
     <<1329, 1366, 1, 48>>, <<4256, 4293, 1, 7264>>, <<4295, 4295, 1, 7264>>,
     <<4301, 4301, 1, 7264>>, <<5024, 5103, 1, 38864>>, <<5104, 5109, 1, 8>>,
     <<7312, 7354, 1, -3008>>, <<7357, 7359, 1, -3008>>,
     <<7680, 7828, 2, 1>>, <<7838, 7838, 1, -7615>>, <<7840, 7934, 2, 1>>,
     <<7944, 7951, 1, -8>>, <<7960, 7965, 1, -8>>, <<7976, 7983, 1, -8>>,
     <<7992, 7999, 1, -8>>, <<8008, 8013, 1, -8>>, <<8025, 8031, 2, -8>>,
     <<8040, 8047, 1, -8>>, <<8072, 8079, 1, -8>>, <<8088, 8095, 1, -8>>,
     <<8104, 8111, 1, -8>>, <<8120, 8121, 1, -8>>, <<8122, 8123, 1, -74>>,
     <<8124, 8124, 1, -9>>, <<8136, 8139, 1, -86>>, <<8140, 8140, 1, -9>>,
     <<8152, 8153, 1, -8>>, <<8154, 8155, 1, -100>>, <<8168, 8169, 1, -8>>,
     <<8170, 8171, 1, -112>>, <<8172, 8172, 1, -7>>, <<8184, 8185, 1, -128>>,
     <<8186, 8187, 1, -126>>, <<8188, 8188, 1, -9>>,
     <<8486, 8486, 1, -7517>>, <<8490, 8490, 1, -8383>>,
     <<8491, 8491, 1, -8262>>, <<8498, 8498, 1, 28>>, <<8544, 8559, 1, 16>>,
     <<8579, 8579, 1, 1>>, <<9398, 9423, 1, 26>>, <<11264, 11311, 1, 48>>,
     <<11360, 11360, 1, 1>>, <<11362, 11362, 1, -10743>>,
     <<11363, 11363, 1, -3814>>, <<11364, 11364, 1, -10727>>,
     <<11367, 11371, 2, 1>>, <<11373, 11373, 1, -10780>>,
     <<11374, 11374, 1, -10749>>, <<11375, 11375, 1, -10783>>,
     <<11376, 11376, 1, -10782>>, <<11378, 11378, 1, 1>>,
     <<11381, 11381, 1, 1>>, <<11390, 11391, 1, -10815>>,
     <<11392, 11490, 2, 1>>, <<11499, 11501, 2, 1>>, <<11506, 11506, 1, 1>>,
     <<42560, 42604, 2, 1>>, <<42624, 42650, 2, 1>>, <<42786, 42798, 2, 1>>,
     <<42802, 42862, 2, 1>>, <<42873, 42875, 2, 1>>,
     <<42877, 42877, 1, -35332>>, <<42878, 42886, 2, 1>>,
     <<42891, 42891, 1, 1>>, <<42893, 42893, 1, -42280>>,
     <<42896, 42898, 2, 1>>, <<42902, 42920, 2, 1>>,
     <<42922, 42922, 1, -42308>>, <<42923, 42923, 1, -42319>>,
     <<42924, 42924, 1, -42315>>, <<42925, 42925, 1, -42305>>,
     <<42926, 42926, 1, -42308>>, <<42928, 42928, 1, -42258>>,
     <<42929, 42929, 1, -42282>>, <<42930, 42930, 1, -42261>>,
     <<42931, 42931, 1, 928>>, <<42932, 42946, 2, 1>>,
     <<42948, 42948, 1, -48>>, <<42949, 42949, 1, -42307>>,
     <<42950, 42950, 1, -35384>>, <<42951, 42953, 2, 1>>,
     <<42960, 42960, 1, 1>>, <<42966, 42968, 2, 1>>, <<42997, 42997, 1, 1>>,
     <<65313, 65338, 1, 32>>, <<66560, 66599, 1, 40>>,
     <<66736, 66771, 1, 40>>, <<66928, 66938, 1, 39>>,
     <<66940, 66954, 1, 39>>, <<66956, 66962, 1, 39>>,
     <<66964, 66965, 1, 39>>, <<68736, 68786, 1, 64>>,
     <<71840, 71871, 1, 32>>, <<93760, 93791, 1, 32>>,
     <<125184, 125217, 1, 34>>}

\* the code points with the property Cased
Cased ==
    UNION {65..90, 97..122, {170, 181, 186}, 192..214, 216..246, 248..442,
           444..447, 452..659, 661..696, 704..705, 736..740, {837}, 880..883,
           886..887, 890..893, {895, 902}, 904..906, {908}, 910..929,
           931..1013, 1015..1153, 1162..1327, 1329..1366, 1376..1416,
           4256..4293, {4295, 4301}, 4304..4346, 4349..4351, 5024..5109,
           5112..5117, 7296..7304, 7312..7354, 7357..7359, 7424..7615,
           7680..7957, 7960..7965, 7968..8005, 8008..8013, 8016..8023,
           {8025, 8027, 8029}, 8031..8061, 8064..8116, 8118..8124, {8126},
           8130..8132, 8134..8140, 8144..8147, 8150..8155, 8160..8172,
           8178..8180, 8182..8188, {8305, 8319}, 8336..8348, {8450, 8455},
           8458..8467, {8469}, 8473..8477, {8484, 8486, 8488}, 8490..8493,
           8495..8500, {8505}, 8508..8511, 8517..8521, {8526}, 8544..8575,
           8579..8580, 9398..9449, 11264..11492, 11499..11502, 11506..11507,
           11520..11557, {11559, 11565}, 42560..42605, 42624..42653,
           42786..42887, 42891..42894, 42896..42954, 42960..42961, {42963},
           42965..42969, 42997..42998, 43000..43002, 43824..43866,
           43868..43880, 43888..43967, 64256..64262, 64275..64279,
           65313..65338, 65345..65370, 66560..66639, 66736..66771,
           66776..66811, 66928..66938, 66940..66954, 66956..66962,
           66964..66965, 66967..66977, 66979..66993, 66995..67001,
           67003..67004, {67456}, 67459..67461, 67463..67504, 67506..67514,
           68736..68786, 68800..68850, 71840..71903, 93760..93823,
           119808..119892, 119894..119964, 119966..119967, {119970},
           119973..119974, 119977..119980, 119982..119993, {119995},
           119997..120003, 120005..120069, 120071..120074, 120077..120084,
           120086..120092, 120094..120121, 120123..120126, 120128..120132,
           {120134}, 120138..120144, 120146..120485, 120488..120512,
           120514..120538, 120540..120570, 120572..120596, 120598..120628,
           120630..120654, 120656..120686, 120688..120712, 120714..120744,
           120746..120770, 120772..120779, 122624..122633, 122635..122654,
           125184..125251, 127280..127305, 127312..127337, 127344..127369}

\* the code points with the property Case_Ignorable
CaseIgnorable ==
    UNION {{39, 46, 58, 94, 96, 168, 173, 175}, {180}, 183..184, 688..879,
           884..885, {890}, 900..901, {903}, 1155..1161, {1369, 1375},
           1425..1469, {1471}, 1473..1474, 1476..1477, {1479, 1524},
           1536..1541, 1552..1562, {1564, 1600}, 1611..1631, {1648},
           1750..1757, 1759..1768, 1770..1773, {1807, 1809}, 1840..1866,
           1958..1968, 2027..2037, {2042, 2045}, 2070..2093, 2137..2139,
           {2184}, 2192..2193, 2200..2207, 2249..2306, {2362, 2364},
           2369..2376, {2381}, 2385..2391, 2402..2403, {2417, 2433, 2492},
           2497..2500, {2509}, 2530..2531, {2558}, 2561..2562, {2620},
           2625..2626, 2631..2632, 2635..2637, {2641}, 2672..2673, {2677},
           2689..2690, {2748}, 2753..2757, 2759..2760, {2765}, 2786..2787,
           2810..2815, {2817, 2876, 2879}, 2881..2884, {2893}, 2901..2902,
           2914..2915, {2946, 3008, 3021, 3072, 3076, 3132}, 3134..3136,
           3142..3144, 3146..3149, 3157..3158, 3170..3171,
           {3201, 3260, 3263, 3270}, 3276..3277, 3298..3299, 3328..3329,
           3387..3388, 3393..3396, {3405}, 3426..3427, {3457, 3530},
           3538..3540, {3542, 3633}, 3636..3642, 3654..3662, {3761},
           3764..3772, {3782}, 3784..3789, 3864..3865, {3893, 3895, 3897},
           3953..3966, 3968..3972, 3974..3975, 3981..3991, 3993..4028,
           {4038}, 4141..4144, 4146..4151, 4153..4154, 4157..4158,
           4184..4185, 4190..4192, 4209..4212, {4226}, 4229..4230,
           {4237, 4253, 4348}, 4957..4959, 5906..5908, 5938..5939,
           5970..5971, 6002..6003, 6068..6069, 6071..6077, {6086},
           6089..6099, {6103, 6109}, 6155..6159, {6211}, 6277..6278, {6313},
           6432..6434, 6439..6440, {6450}, 6457..6459, 6679..6680,
           {6683, 6742}, 6744..6750, {6752, 6754}, 6757..6764, 6771..6780,
           {6783, 6823}, 6832..6862, 6912..6915, {6964}, 6966..6970,
           {6972, 6978}, 7019..7027, 7040..7041, 7074..7077, 7080..7081,
           7083..7085, {7142}, 7144..7145, {7149}, 7151..7153, 7212..7219,
           7222..7223, 7288..7293, 7376..7378, 7380..7392, 7394..7400,
           {7405, 7412}, 7416..7417, 7468..7530, {7544}, 7579..7679, {8125},
           8127..8129, 8141..8143, 8157..8159, 8173..8175, 8189..8190,
           8203..8207, 8216..8217, {8228, 8231}, 8234..8238, 8288..8292,
           8294..8303, {8305, 8319}, 8336..8348, 8400..8432, 11388..11389,
           11503..11505, {11631, 11647}, 11744..11775, {11823, 12293},
           12330..12333, 12337..12341, {12347}, 12441..12446, 12540..12542,
           {40981}, 42232..42237, {42508}, 42607..42610, 42612..42621,
           {42623}, 42652..42655, 42736..42737, 42752..42785, {42864},
           42888..42890, 42994..42996, 43000..43001, {43010, 43014, 43019},
           43045..43046, {43052}, 43204..43205, 43232..43249, {43263},
           43302..43309, 43335..43345, 43392..43394, {43443}, 43446..43449,
           43452..43453, {43471}, 43493..43494, 43561..43566, 43569..43570,
           43573..43574, {43587, 43596, 43632, 43644, 43696}, 43698..43700,
           43703..43704, 43710..43711, {43713, 43741}, 43756..43757,
           43763..43764, {43766}, 43867..43871, 43881..43883,
           {44005, 44008, 44013, 64286}, 64434..64450, 65024..65039, {65043},
           65056..65071,
           {65106, 65109, 65279, 65287, 65294, 65306, 65342, 65344}, {65392},
           65438..65439, {65507}, 65529..65531, {66045, 66272}, 66422..66426,
           67456..67461, 67463..67504, 67506..67514, 68097..68099,
           68101..68102, 68108..68111, 68152..68154, {68159}, 68325..68326,
           68900..68903, 69291..69292, 69446..69456, 69506..69509, {69633},
           69688..69702, {69744}, 69747..69748, 69759..69761, 69811..69814,
           69817..69818, {69821, 69826, 69837}, 69888..69890, 69927..69931,
           69933..69940, {70003}, 70016..70017, 70070..70078, 70089..70092,
           {70095}, 70191..70193, {70196}, 70198..70199, {70206, 70367},
           70371..70378, 70400..70401, 70459..70460, {70464}, 70502..70508,
           70512..70516, 70712..70719, 70722..70724, {70726, 70750},
           70835..70840, {70842}, 70847..70848, 70850..70851, 71090..71093,
           71100..71101, 71103..71104, 71132..71133, 71219..71226, {71229},
           71231..71232, {71339, 71341}, 71344..71349, {71351}, 71453..71455,
           71458..71461, 71463..71467, 71727..71735, 71737..71738,
           71995..71996, {71998, 72003}, 72148..72151, 72154..72155, {72160},
           72193..72202, 72243..72248, 72251..72254, {72263}, 72273..72278,
           72281..72283, 72330..72342, 72344..72345, 72752..72758,
           72760..72765, {72767}, 72850..72871, 72874..72880, 72882..72883,
           72885..72886, 73009..73014, {73018}, 73020..73021, 73023..73029,
           {73031}, 73104..73105, {73109, 73111}, 73459..73460, 78896..78904,
           92912..92916, 92976..92982, 92992..92995, {94031}, 94095..94111,
           94176..94177, 94179..94180, 110576..110579, 110581..110587,
           110589..110590, 113821..113822, 113824..113827, 118528..118573,
           118576..118598, 119143..119145, 119155..119170, 119173..119179,
           119210..119213, 119362..119364, 121344..121398, 121403..121452,
           {121461, 121476}, 121499..121503, 121505..121519, 122880..122886,
           122888..122904, 122907..122913, 122915..122916, 122918..122922,
           123184..123197, {123566}, 123628..123631, 125136..125142,
           125252..125259, 127995..127999, {917505}, 917536..917631,
           917760..917999}

\* LATIN CAPITAL LETTER I WITH DOT ABOVE, the one character whose lower case
\* is two characters: i and COMBINING DOT ABOVE
CapitalIDot == 304

CapitalIDotLower == <<105, 775>>

\* GREEK CAPITAL LETTER SIGMA, and the small letters it maps to
CapitalSigma == 931

FinalSigma == 962

SmallSigma == 963

\* _PyUnicode_ToLowerFull(c): the code points str.lower() gives for c
ToLowerFull(c) ==
    IF c < 128 THEN <<IF 65 <= c /\ c <= 90 THEN c + 32 ELSE c>>
    ELSE IF c = CapitalIDot THEN CapitalIDotLower
    ELSE LET hit == {r \in LowerRules :
                        r[1] <= c /\ c <= r[2] /\ (c - r[1]) % r[3] = 0}
         IN  IF hit = {} THEN <<c>> ELSE <<c + (CHOOSE r \in hit : TRUE)[4]>>

\* handle_capital_sigma: the sigma at i is final when a cased character
\* precedes it and none follows it, case-ignorable characters skipped
handle_capital_sigma(s, i) ==
    LET before == {j \in 1..(i - 1) : s[j] \notin CaseIgnorable}
        after  == {j \in (i + 1)..Len(s) : s[j] \notin CaseIgnorable}
    IN  IF /\ before # {} /\ s[SetMax(before)] \in Cased
           /\ (after = {} \/ s[SetMin(after)] \notin Cased)
        THEN FinalSigma ELSE SmallSigma

\* lower_ucs4: the lower case of the character at i of s
lower_ucs4(s, i) ==
    IF s[i] = CapitalSigma THEN <<handle_capital_sigma(s, i)>>
    ELSE ToLowerFull(s[i])

RECURSIVE do_lower(_, _, _)
\* the lower case of s[a..b], by halves
do_lower(s, a, b) ==
    IF a > b THEN <<>>
    ELSE IF a = b THEN lower_ucs4(s, a)
    ELSE LET m == (a + b) \div 2
         IN  do_lower(s, a, m) \o do_lower(s, m + 1, b)

\* str.lower()
lower(s) == do_lower(s, 1, Len(s))

\* The characters str.strip() and str.split() treat as whitespace
\* (str.isspace).
Whitespace ==
    (9..13) \cup (28..32) \cup {133, 160, 5760} \cup (8192..8202)
        \cup {8232, 8233, 8239, 8287, 12288}

\* str.strip()
strip(s) ==
    LET keep == {i \in 1..Len(s) : s[i] \notin Whitespace}
    IN  IF keep = {} THEN <<>> ELSE SubSeq(s, SetMin(keep), SetMax(keep))

\* sub in s
contains(sub, s) ==
    \E i \in 0..(Len(s) - Len(sub)) : SubSeq(s, i + 1, i + Len(sub)) = sub

\* s.startswith(pre)
startswith(s, pre) == Len(pre) <= Len(s) /\ SubSeq(s, 1, Len(pre)) = pre

\* str.split(): the maximal runs of non-whitespace characters, in order
split(s) ==
    LET starts == {i \in 1..Len(s) :
                      s[i] \notin Whitespace /\ (i = 1 \/ s[i-1] \in Whitespace)}
        ends   == {i \in 1..Len(s) :
                      s[i] \notin Whitespace /\ (i = Len(s) \/ s[i+1] \in Whitespace)}
        kth(S, k) == CHOOSE i \in S : Cardinality({j \in S : j < i}) = k - 1
    IN  [k \in 1..Cardinality(starts) |-> SubSeq(s, kth(starts, k), kth(ends, k))]

\* seq[:n]
take(seq, n) == SubSeq(seq, 1, IF Len(seq) < n THEN Len(seq) ELSE n)

(***************************************************************************)
(* json.loads, as far as safe_json_load needs it: does the text parse.     *)
(* Every scanner returns the index after what it read, or 0 when json.loads *)
(* raises (JSONDecodeError, ValueError or RecursionError alike: they are   *)
(* all caught by safe_json_load).                                          *)
(***************************************************************************)
\* sys.get_int_max_str_digits(): int() raises ValueError on a longer literal
IntMaxStrDigits == 4300

\* sys.getrecursionlimit(); neither script changes it
RecursionLimit == 1000

\* the entries evaluate_row puts on the interpreter's stack before the scanner
\* opens a container: evaluate_row, safe_json_load, json.loads,
\* JSONDecoder.decode, JSONDecoder.raw_decode and the call of the scanner
JsonFrames == 6

\* the stack depth evaluate_row is called at: by main() of
\* correctness_checkers.py (<module>, main), and by the module code of
\* model_runner_baseline.py (<module>)
MainFrames == 2

RunnerFrames == 1

\* the containers the scanner can have open at once when evaluate_row is
\* called at stack depth frames; one more makes it raise RecursionError
NestingBudget(frames) == RecursionLimit - (frames + JsonFrames)

JsonWhitespace == {32, 9, 10, 13}  \* " ", "\t", "\n", "\r"

Digits == 48..57  \* "0", "9"

HexDigits == Digits \cup (97..102) \cup (65..70)  \* "a", "f", "A", "F"

\* The characters a strict JSON string may not hold unescaped: U+0000..U+001F
ControlChars == 0..31

\* the characters that may follow a backslash in a JSON string, \u apart
EscapeChars ==
    \* "\"", "\\", "/", "b", "f", "n", "r"
    {34, 92, 47, 98, 102, 110, 114,
     \* "t"
     116}

Quote == 34  \* "\""

Backslash == 92  \* "\\"

LBrace == 123  \* "{"

RBrace == 125  \* "}"

LBracket == 91  \* "["

RBracket == 93  \* "]"

Colon == 58  \* ":"

Comma == 44  \* ","

Minus == 45  \* "-"

Dot == 46  \* "."

Zero == 48  \* "0"

SmallU == 117  \* "u"

Signs == {45, 43}  \* "-", "+"

ExponentMarks == {101, 69}  \* "e", "E"

NullWord == <<110, 117, 108, 108>>  \* "null"

TrueWord == <<116, 114, 117, 101>>  \* "true"

FalseWord == <<102, 97, 108, 115, 101>>  \* "false"

NaNWord == <<78, 97, 78>>  \* "NaN"

InfinityWord == <<73, 110, 102, 105, 110, 105, 116, 121>>  \* "Infinity"

\* "-Infinity"
MinusInfinityWord == <<45, 73, 110, 102, 105, 110, 105, 116, 121>>

\* no character: what is read past the end of s
NoChar == -1

CharAt(s, i) == IF i >= 1 /\ i <= Len(s) THEN s[i] ELSE NoChar

\* WHITESPACE.match(s, i).end()
SkipWs(s, i) ==
    LET stop == {j \in i..(Len(s) + 1) : CharAt(s, j) \notin JsonWhitespace}
    IN  SetMin(stop)

\* the end of the longest run of digits that starts at i (i when there is none)
DigitsEnd(s, i) ==
    SetMin({j \in i..(Len(s) + 1) : CharAt(s, j) \notin Digits})

\* NUMBER_RE.match(s, i): (-?(?:0|[1-9][0-9]*))(\.[0-9]+)?([eE][-+]?[0-9]+)?
\* and the conversion of the match: int() of a literal with neither fraction
\* nor exponent raises when it has more than IntMaxStrDigits digits
\* Each group of the pattern is matched by an operator that receives the
\* ends of the groups before it: j is where the digits start, int the end of
\* the integer part, frac the end of the fraction, sgn the start of the
\* exponent's digits.
NumberExponent(s, j, int, frac, sgn) ==
    IF CharAt(s, frac) \in ExponentMarks /\ DigitsEnd(s, sgn) > sgn
    THEN DigitsEnd(s, sgn)
    ELSE IF frac = int /\ int - j > IntMaxStrDigits THEN 0
    ELSE frac

NumberFraction(s, j, int, frac) ==
    NumberExponent(s, j, int, frac,
                   IF CharAt(s, frac + 1) \in Signs THEN frac + 2 ELSE frac + 1)

NumberInteger(s, j, int) ==
    IF int = 0 THEN 0
    ELSE NumberFraction(s, j, int,
                        IF CharAt(s, int) = Dot /\ DigitsEnd(s, int + 1) > int + 1
                        THEN DigitsEnd(s, int + 1) ELSE int)

NumberDigits(s, j) ==
    NumberInteger(s, j,
                  IF CharAt(s, j) = Zero THEN j + 1
                  ELSE IF CharAt(s, j) \in Digits THEN DigitsEnd(s, j) ELSE 0)

ScanNumber(s, i) == NumberDigits(s, IF CharAt(s, i) = Minus THEN i + 1 ELSE i)

RECURSIVE ScanString(_, _)
\* scanstring(s, i, strict=True): i is the index after the opening quote.
\* The scanner runs to the next quote, backslash or control character, and
\* goes on after the escape when that is a backslash.
ScanString(s, i) ==
    LET stop == {j \in i..Len(s) :
                    s[j] = Quote \/ s[j] = Backslash \/ s[j] \in ControlChars}
        j    == SetMin(stop)
    IN  IF stop = {} THEN 0
        ELSE IF s[j] = Quote THEN j + 1
        ELSE IF s[j] # Backslash THEN 0
        ELSE IF CharAt(s, j + 1) \in EscapeChars THEN ScanString(s, j + 2)
        ELSE IF /\ CharAt(s, j + 1) = SmallU
                /\ \A k \in 2..5 : CharAt(s, j + k) \in HexDigits
             THEN ScanString(s, j + 6)
        ELSE 0

\* s[i:i+len(word)] == word
Literal(s, i, word) ==
    i + Len(word) - 1 <= Len(s) /\ SubSeq(s, i, i + Len(word) - 1) = word

\* scan_once's last cases, n being what the number pattern matched at i
ScanConstant(s, i, n) ==
    IF n # 0 THEN n
    ELSE IF Literal(s, i, NaNWord) THEN i + 3
    ELSE IF Literal(s, i, InfinityWord) THEN i + 8
    ELSE IF Literal(s, i, MinusInfinityWord) THEN i + 9
    ELSE 0

RECURSIVE ScanOnce(_, _, _)
RECURSIVE ScanMembers(_, _, _)
RECURSIVE AfterKey(_, _, _)
RECURSIVE AfterValue(_, _, _)
RECURSIVE ScanItems(_, _, _)
RECURSIVE AfterItem(_, _, _)
\* scan_once(s, i): one JSON value starting exactly at i; d is the number of
\* containers that may still be opened (Py_EnterRecursiveCall fails at 0)
ScanOnce(s, i, d) ==
    LET c == CharAt(s, i)
    IN  IF c = NoChar THEN 0
        ELSE IF c = Quote THEN ScanString(s, i + 1)
        ELSE IF c = LBrace THEN
            LET j == SkipWs(s, i + 1)
            IN  IF d = 0 THEN 0
                ELSE IF CharAt(s, j) = RBrace THEN j + 1 ELSE ScanMembers(s, j, d - 1)
        ELSE IF c = LBracket THEN
            LET j == SkipWs(s, i + 1)
            IN  IF d = 0 THEN 0
                ELSE IF CharAt(s, j) = RBracket THEN j + 1 ELSE ScanItems(s, j, d - 1)
        ELSE IF Literal(s, i, NullWord) THEN i + 4
        ELSE IF Literal(s, i, TrueWord) THEN i + 4
        ELSE IF Literal(s, i, FalseWord) THEN i + 5
        ELSE ScanConstant(s, i, ScanNumber(s, i))

\* JSONObject's loop: i is at the quote that opens a key
ScanMembers(s, i, d) ==
    IF CharAt(s, i) # Quote THEN 0 ELSE AfterKey(s, ScanString(s, i + 1), d)

\* k is the index after the key's closing quote (0: the key did not scan)
AfterKey(s, k, d) ==
    IF k = 0 \/ CharAt(s, SkipWs(s, k)) # Colon THEN 0
    ELSE AfterValue(s, ScanOnce(s, SkipWs(s, SkipWs(s, k) + 1), d), d)

\* v is the index after the member's value (0: the value did not scan)
AfterValue(s, v, d) ==
    IF v = 0 THEN 0
    ELSE IF CharAt(s, SkipWs(s, v)) = RBrace THEN SkipWs(s, v) + 1
    ELSE IF CharAt(s, SkipWs(s, v)) = Comma
         THEN ScanMembers(s, SkipWs(s, SkipWs(s, v) + 1), d)
    ELSE 0

\* JSONArray's loop: i is at the start of an item
ScanItems(s, i, d) == AfterItem(s, ScanOnce(s, i, d), d)

\* v is the index after the item (0: the item did not scan)
AfterItem(s, v, d) ==
    IF v = 0 THEN 0
    ELSE IF CharAt(s, SkipWs(s, v)) = RBracket THEN SkipWs(s, v) + 1
    ELSE IF CharAt(s, SkipWs(s, v)) = Comma
         THEN ScanItems(s, SkipWs(s, SkipWs(s, v) + 1), d)
    ELSE 0

\* json.loads(s) returns a value that is not None: the value scanned from the
\* first non-blank character ends at v, only blanks follow, and the document
\* is not null
decoded(s, v) ==
    v # 0 /\ SkipWs(s, v) = Len(s) + 1 /\ ~Literal(s, SkipWs(s, 1), NullWord)

\* safe_json_load(s) is not None, when evaluate_row was called at stack depth
\* frames
safe_json_load(s, frames) ==
    decoded(s, ScanOnce(s, SkipWs(s, 1), NestingBudget(frames)))

looks_like_json(text) ==
    LET t == strip(text)
    IN  startswith(t, <<LBrace>>) \/ startswith(t, <<LBracket>>)

MathChars == Digits \cup {43, 45, 42, 47, 61}  \* "+", "-", "*", "/", "="

\* re.search(r"[0-9+\-*/=]", text)
is_math_expression(text) == \E i \in 1..Len(text) : text[i] \in MathChars

(***************************************************************************)
(* evaluate_row(prompt, output).  The result carries "raised": calling     *)
(* .lower() on None raises AttributeError before anything is computed.     *)
(* The third argument is the stack depth of the call, which decides how     *)
(* deeply nested a JSON output json.loads still parses.                    *)
(***************************************************************************)
Raised == [raised |-> TRUE, category |-> "", correct |-> FALSE, output_len |-> 0]

MathKeywords == {Chars("derivative"), Chars("integral"), Chars("solve")}

CodeKeywords == {Chars("python"), Chars("code"), Chars("function")}

JsonKeywords == {Chars("json"), Chars("object"), Chars("key")}

WritingKeywords == {Chars("story"), Chars("write"), Chars("poem")}

MathSymbols == {Chars("x"), Chars("y"), Chars("="), Chars("dx"), Chars("dy"),
                Chars("6x"), Chars("2x")}

CodeTokens == {Chars("def "), Chars("return"), Chars("for "), Chars("while ")}

\* len(out_lower) > GeneralMinLen
GeneralMinLen == 5

\* p_lower.split()[:GeneralPromptTokens]
GeneralPromptTokens == 3

\* len(out_lower.split()) > WritingMinWords
WritingMinWords == 10

\* Mutant of Category: the writing rule tried before the code rule.
Category_writing_first(p_lower) ==
    IF \E k \in MathKeywords : contains(k, p_lower) THEN "math"
    ELSE IF \E k \in WritingKeywords : contains(k, p_lower) THEN "writing"
    ELSE IF \E k \in CodeKeywords : contains(k, p_lower) THEN "code"
    ELSE IF \E k \in JsonKeywords : contains(k, p_lower) THEN "json"
    ELSE "general"

\* the category chosen by the if/elif chain
Category(p_lower) ==
    IF \E k \in MathKeywords : contains(k, p_lower) THEN "math"
    ELSE IF \E k \in CodeKeywords : contains(k, p_lower) THEN "code"
    ELSE IF \E k \in JsonKeywords : contains(k, p_lower) THEN "json"
    ELSE IF \E k \in WritingKeywords : contains(k, p_lower) THEN "writing"
    ELSE "general"

\* Mutant of GeneralCorrect: every prompt token is tried, not the first three.
GeneralCorrect_all_tokens(p_lower, out_lower) ==
    LET words == split(p_lower)
    IN  /\ Len(out_lower) > GeneralMinLen
        /\ \E k \in 1..Len(words) : contains(words[k], out_lower)

\* the general branch: any(w in out_lower for w in p_lower.split()[:3])
GeneralCorrect(p_lower, out_lower) ==
    LET words == take(split(p_lower), GeneralPromptTokens)
    IN  /\ Len(out_lower) > GeneralMinLen
        /\ \E k \in 1..Len(words) : contains(words[k], out_lower)

\* the correctness assigned in the branch of the category
Correctness(category, p_lower, output, out_lower, frames) ==
    CASE category = "math" ->
            \/ \E sym \in MathSymbols : contains(sym, out_lower)
            \/ is_math_expression(out_lower)
      [] category = "code" ->
            \E k \in CodeTokens : contains(k, out_lower)
      [] category = "json" ->
            looks_like_json(output) /\ safe_json_load(output, frames)
      [] category = "writing" ->
            Len(split(out_lower)) > WritingMinWords /\ contains(<<Dot>>, out_lower)
      [] OTHER -> GeneralCorrect(p_lower, out_lower)

\* the dict evaluate_row returns
row_dict(category, p_lower, output, out_lower, frames) ==
    [raised     |-> FALSE,
     category   |-> category,
     correct    |-> Correctness(category, p_lower, output, out_lower, frames),
     output_len |-> Len(split(out_lower))]

\* evaluate_row from "category = ..." on
categorize(p_lower, output, out_lower, frames) ==
    row_dict(Category(p_lower), p_lower, output, out_lower, frames)

evaluate_row(prompt, output, frames) ==
    IF prompt.none \/ output.none THEN Raised
    ELSE categorize(lower(prompt.s), output.s, strip(lower(output.s)), frames)

(***************************************************************************)
(* Python dicts are functions; csv.DictReader; the accumulation helpers.   *)
(***************************************************************************)
EmptyDict == [k \in {} |-> 0]

\* d.get(key, default)
get(d, key, default) == IF key \in DOMAIN d THEN d[key] ELSE default

\* Mutant of setdefault: the entry is reset even when the key is present.
setdefault_overwrite(d, key, default) ==
    [k \in DOMAIN d \cup {key} |-> IF k = key THEN default ELSE d[k]]

\* d.setdefault(key, default)
setdefault(d, key, default) ==
    IF key \in DOMAIN d THEN d ELSE d @@ (key :> default)

\* the key csv.DictReader files the surplus fields of a long row under
RestKey == PyNone

\* the keys main and the runner read
PromptKey == PyStr(Chars("prompt"))

OutputKey == PyStr(Chars("output"))

\* One row of csv.DictReader: dict(zip(fieldnames, row)), a missing field
\* filed as None (restval), surplus fields under the rest key.  Of the
\* columns that share a name the last one gives the value.  The keys are
\* Python values: the column names, and None.
DictRow(fieldnames, raw) ==
    LET lf == Len(fieldnames)
        lr == Len(raw)
        zipped == [k \in {PyStr(fieldnames[j]) : j \in 1..lf} |->
                     LET j == SetMax({j \in 1..lf : fieldnames[j] = k.s})
                     IN  IF j <= lr THEN PyStr(raw[j]) ELSE PyNone]
    IN  IF lr > lf
        THEN zipped @@ (RestKey :> [none |-> FALSE, s |-> SubSeq(raw, lf + 1, lr)])
        ELSE zipped

(***************************************************************************)
(* Python floats (IEEE 754 binary64), as far as the percentages need them. *)
(* A natural number is the sequence of its binary digits, least            *)
(* significant first; a float is m * 2^(-e) with m such a number of at     *)
(* most MantissaBits digits (or 2^MantissaBits).                           *)
(***************************************************************************)
MantissaBits == 53

\* the number of binary digits of n (n < 2^30)
BitLength(n) == SetMin({l \in 0..30 : 2^l > n})

ToBits(n) == [j \in 1..BitLength(n) |-> (n \div 2^(j - 1)) % 2]

RECURSIVE ToInt(_)
ToInt(bits) ==
    IF Len(bits) = 0 THEN 0
    ELSE IF Len(bits) = 1 THEN bits[1]
    ELSE LET h == Len(bits) \div 2
         IN  ToInt(SubSeq(bits, 1, h)) + 2^h * ToInt(SubSeq(bits, h + 1, Len(bits)))

\* bits + 1: the carry runs up to the lowest 0
Inc(bits) ==
    LET z == SetMin({j \in 1..(Len(bits) + 1) : j > Len(bits) \/ bits[j] = 0})
    IN  [j \in 1..(IF z > Len(bits) THEN z ELSE Len(bits)) |->
            IF j < z THEN 0 ELSE IF j = z THEN 1 ELSE bits[j]]

RECURSIVE MulCarry(_, _, _)
\* the Len(bits) low digits of bits * k + carry, and the carry out of them
MulCarry(bits, k, carry) ==
    IF Len(bits) = 0 THEN [bits |-> <<>>, carry |-> carry]
    ELSE IF Len(bits) = 1
         THEN [bits  |-> <<(bits[1] * k + carry) % 2>>,
               carry |-> (bits[1] * k + carry) \div 2]
    ELSE LET h  == Len(bits) \div 2
             lo == MulCarry(SubSeq(bits, 1, h), k, carry)
             hi == MulCarry(SubSeq(bits, h + 1, Len(bits)), k, lo.carry)
         IN  [bits |-> lo.bits \o hi.bits, carry |-> hi.carry]

\* bits * k
MulSmall(bits, k) ==
    LET r == MulCarry(bits, k, 0)
    IN  r.bits \o ToBits(r.carry)

\* bits / 2^k rounded to the nearest integer, ties to even; sticky says that
\* the exact value lies above bits
RoundShift(bits, k, sticky) ==
    IF k <= 0 THEN bits
    ELSE LET kept == IF k < Len(bits) THEN SubSeq(bits, k + 1, Len(bits)) ELSE <<>>
             half == k <= Len(bits) /\ bits[k] = 1
             low  == sticky \/ \E j \in 1..(k - 1) : j <= Len(bits) /\ bits[j] = 1
             odd  == kept # <<>> /\ kept[1] = 1
         IN  IF half /\ (low \/ odd) THEN Inc(kept) ELSE kept

RECURSIVE FracBits(_, _, _)
\* the first n binary digits of r / t after the point (r < t < 2^30), most
\* significant first, and the remainder left (long division, by halves)
FracBits(r, t, n) ==
    IF n = 0 THEN [bits |-> <<>>, rem |-> r]
    ELSE IF n = 1
         THEN [bits |-> <<IF 2 * r >= t THEN 1 ELSE 0>>,
               rem  |-> IF 2 * r >= t THEN 2 * r - t ELSE 2 * r]
    ELSE LET hi == FracBits(r, t, n \div 2)
             lo == FracBits(hi.rem, t, n - n \div 2)
         IN  [bits |-> hi.bits \o lo.bits, rem |-> lo.rem]

\* the zeros that open the binary digits of r / t after the point (0 < r < t)
LeadingZeros(r, t) ==
    SetMin({z \in 0..29 : r >= (t + 2^(z + 1) - 1) \div 2^(z + 1)})

Reverse(seq) == [k \in 1..Len(seq) |-> seq[Len(seq) + 1 - k]]

\* c / t of two ints (true division, correctly rounded), 0 <= c, 0 < t < 2^30
float_div(c, t) ==
    IF c = 0 THEN [m |-> <<>>, e |-> 0]
    ELSE LET whole == ToBits(c \div t)
             n     == IF whole # <<>> THEN MantissaBits + 1 - Len(whole)
                      ELSE LeadingZeros(c, t) + MantissaBits + 1
             fb    == FracBits(c % t, t, n)
             digits == SubSeq(Reverse(fb.bits), 1, MantissaBits + 1 - Len(whole))
                          \o whole
         IN  [m |-> RoundShift(digits, 1, fb.rem # 0), e |-> n - 1]

\* x * k of a float and a small int
float_mul(x, k) ==
    LET product == MulSmall(x.m, k)
        drop    == IF Len(product) > MantissaBits THEN Len(product) - MantissaBits
                   ELSE 0
    IN  [m |-> RoundShift(product, drop, FALSE), e |-> x.e - drop]

\* round(x, 2) in hundredths (66.67 is 6667): the decimal of two places
\* nearest to the exact value of the float x, ties to even
round2(x) == ToInt(RoundShift(MulSmall(x.m, 100), x.e, FALSE))

\* round(num / den * 100, 2), in hundredths of a percent
percent(num, den) == round2(float_mul(float_div(num, den), 100))

\* the counts whose percentages are computed once and looked up afterwards
MemoMax == 6

PercentMemo ==
    [num \in 0..MemoMax |-> [den \in 1..MemoMax |-> percent(num, den)]]

\* round(num / den * 100, 2), in hundredths of a percent: percent(num, den),
\* looked up for small counts
round_percent(num, den) ==
    IF num \in 0..MemoMax /\ den \in 1..MemoMax THEN PercentMemo[num][den]
    ELSE percent(num, den)

\* Mutant of accumulate: the category's correct counter is incremented for
\* every row.
accumulate_correct_always(acc, res) ==
    LET cat  == res.category
        st0  == setdefault(acc.category_stats, cat, [total |-> 0, correct |-> 0])
        st1  == [st0 EXCEPT ![cat].total = @ + 1, ![cat].correct = @ + 1]
    IN  [correct        |-> IF res.correct THEN acc.correct + 1 ELSE acc.correct,
         category_stats |-> st1]

\* Mutant of accumulate: the category's total is incremented only under
\* "if res['correct']".
accumulate_total_if_correct(acc, res) ==
    LET cat  == res.category
        st0  == setdefault(acc.category_stats, cat, [total |-> 0, correct |-> 0])
        st1  == IF res.correct
                THEN [st0 EXCEPT ![cat].total = @ + 1, ![cat].correct = @ + 1]
                ELSE st0
    IN  [correct        |-> IF res.correct THEN acc.correct + 1 ELSE acc.correct,
         category_stats |-> st1]

\* the body of main's loop after evaluate_row returned res
accumulate(acc, res) ==
    LET cat  == res.category
        st0  == setdefault(acc.category_stats, cat, [total |-> 0, correct |-> 0])
        st1  == [st0 EXCEPT ![cat].total = @ + 1]
        st2  == IF res.correct THEN [st1 EXCEPT ![cat].correct = @ + 1] ELSE st1
    IN  [correct        |-> IF res.correct THEN acc.correct + 1 ELSE acc.correct,
         category_stats |-> st2]

\* the per_category mapping of both reports
per_category(stats, guarded) ==
    [c \in DOMAIN stats |->
        [accuracy_percent |-> IF guarded /\ stats[c].total = 0 THEN 0
                              ELSE round_percent(stats[c].correct, stats[c].total),
         correct |-> stats[c].correct,
         total   |-> stats[c].total]]

\* os.path.basename, on a list of path components
basename(path) == path[Len(path)]

\* main's summary dict
build_summary(csv_path, total, correct, category_stats) ==
    [file             |-> basename(csv_path),
     total            |-> total,
     correct          |-> correct,
     accuracy_percent |-> round_percent(correct, total),
     per_category     |-> per_category(category_stats, TRUE)]

\* Mutant of no_rows: the empty-table check never fires.
no_rows_never(rs) == FALSE

\* if not rows
no_rows(rs) == rs = <<>>

\* what main's loop evaluates for row r
row_result(r) ==
    evaluate_row(get(r, PromptKey, PyStr(<<>>)), get(r, OutputKey, PyStr(<<>>)),
                 MainFrames)

RECURSIVE fold_results(_, _, _)
\* main's loop from its k-th iteration on, as a fold of its body over the
\* results of the rows (no row raising)
fold_results(results, k, acc) ==
    IF k > Len(results) THEN acc
    ELSE fold_results(results, k + 1, accumulate(acc, results[k]))

\* main from "total = len(rows)" to the summary dict, given the rows' results
aggregate(csv_path, results) ==
    LET acc == fold_results(results, 1, [correct |-> 0, category_stats |-> EmptyDict])
    IN  build_summary(csv_path, Len(results), acc.correct, acc.category_stats)

(***************************************************************************)
(* Bounds and the inputs the environment can supply.                       *)
(***************************************************************************)
\* most data rows of the table correctness_checkers.py is given
MaxRows == 3

\* most prompts of the prompts file the runner is given
MaxPrompts == 2

BoundedSeq(S, n) == UNION {[1..k -> S] : k \in 0..n}

\* sys.argv[1], as path components
CsvPath == <<"results", "run1", "outputs.csv">>

\* the header line the runner writes
RunnerHeader ==
    <<Chars("prompt"), Chars("output"), Chars("latency_s"), Chars("correct")>>

\* header lines of the table: the runner's columns, and a table with no
\* output column
Headers == {RunnerHeader, <<Chars("prompt")>>}

\* the document ["\x00"]: an array of one string that holds U+0000 unescaped
NulDocument == <<91, 34, 0, 34, 93>>

\* U+039F U+0394 U+039F U+03A3, a blank, "gd"
GreekPrompt == <<927, 916, 927, 931, 32, 103, 100>>

\* U+03BF U+03B4 U+03BF U+03C2, twice, a blank between
GreekOutput == <<959, 948, 959, 962, 32, 959, 948, 959, 962>>

\* the field lists csv.reader can yield for a data line (never the empty list:
\* DictReader skips blank lines)
\* The prompts match the rules (code, writing), (math, code), (code, json),
\* (json, writing) and none; the outputs of the general rows hold a prompt
\* token inside a longer word, as a fourth token only, in an output of three
\* characters, and in Greek capitals that end in a sigma.
RawRows ==
    {<<Chars("Write a Python function"), Chars("def f(): return 1"),
       Chars("0.5"), Chars("True"), Chars("surplus")>>,
     <<Chars("SOLVE it in code"), Chars("none")>>,
     <<Chars("A function for json"), Chars("{}")>>,
     <<Chars("Write a json object"), NulDocument>>,
     <<Chars("a big cat"), Chars("Catalog")>>,
     <<Chars("Tell me more cats"), Chars("cats are")>>,
     <<Chars("cat nap"), Chars(" Cat ")>>,
     <<GreekPrompt, GreekOutput>>,
     <<Chars(""), Chars("")>>,
     <<Chars("hello")>>}

\* prompts of a prompts file, and texts the generation service can return
RunnerPrompts ==
    {Chars("Solve for x in Python"), Chars("Write a poem about the sea"),
     Chars("Write a json object"), GreekPrompt}

OutputTexts ==
    {Chars("{\"x\": [42, 2.5e3, null]}"),
     Chars("one two three four five six seven\r\neight nine ten eleven."),
     GreekOutput,
     Chars("")}

\* what json.load can return for the prompts file: a list, or a dict with
\* or without the "prompts" key
PromptData ==
    {[kind |-> "list", items |-> ps] : ps \in BoundedSeq(RunnerPrompts, MaxPrompts)}
    \cup {[kind |-> "dict", items |-> ("prompts" :> ps)] :
             ps \in BoundedSeq(RunnerPrompts, MaxPrompts)}
    \cup {[kind |-> "dict", items |-> EmptyDict]}

\* a file: absent, or present with the documents dumped into it so far
\* (none while it is open for writing and nothing has been flushed)
Absent == [exists |-> FALSE, text |-> <<>>]

Truncated == [exists |-> TRUE, text |-> <<>>]

Dumped(doc) == [exists |-> TRUE, text |-> <<doc>>]

\* the report an earlier run of correctness_checkers.py left in the directory
PriorReport ==
    Dumped(build_summary(CsvPath, 1, 1, ("math" :> [total |-> 1, correct |-> 1])))

\* outputs.csv: the header line and the data lines written so far
NoCsv == [exists |-> FALSE, header |-> <<>>, lines |-> <<>>]

NoResult == [raised |-> FALSE, category |-> "", correct |-> FALSE, output_len |-> 0]

(***************************************************************************)
(* State.                                                                  *)
(***************************************************************************)
VARIABLES
    script,               \* which script runs: "checker" or "runner"
    pc,                   \* its position
    exc,                  \* the uncaught exception that ended it, or ""
    exit_code,            \* sys.exit's argument, -1 while running
    argv,                 \* checker: sys.argv[1:]
    csv_exists,           \* checker: os.path.exists(csv_path)
    rows,                 \* both: the DictReader rows
    total, correct,       \* checker: global counters
    category_stats,       \* checker: label -> {total, correct}
    i,                    \* completed iterations of the current loop
    prompt, output, res,  \* loop locals
    summary,              \* both: the summary dict
    correctness_summary,  \* the file correctness_summary.json
    prompts_exists,       \* runner: os.path.exists(args.prompts)
    prompts,              \* runner: the prompt list
    telemetry_history,    \* runner
    outputs_csv,          \* runner: the file outputs.csv
    correct_total,        \* runner
    summary_json,         \* runner: the file summary.json
    telemetry_json,       \* runner: the file telemetry.json
    cats,                 \* runner: label -> {total, correct}
    cat_summary,          \* runner
    archive               \* runner: run_dir + ".zip" exists

vars == <<script, pc, exc, exit_code, argv, csv_exists, rows, total, correct,
          category_stats, i, prompt, output, res, summary, correctness_summary,
          prompts_exists, prompts, telemetry_history, outputs_csv, correct_total,
          summary_json, telemetry_json, cats, cat_summary, archive>>

checker_vars == <<argv, csv_exists, total, correct, category_stats>>

runner_vars == <<prompts_exists, prompts, telemetry_history, outputs_csv,
                 correct_total, summary_json, telemetry_json, cats, cat_summary,
                 archive>>

loop_vars == <<i, prompt, output, res>>

Init ==
    /\ script \in {"checker", "runner"}
    /\ pc = "start"
    /\ exc = ""
    /\ exit_code = -1
    /\ argv \in IF script = "checker" THEN {<<>>, <<CsvPath>>} ELSE {<<>>}
    /\ csv_exists \in IF script = "checker" /\ argv # <<>> THEN BOOLEAN ELSE {FALSE}
    /\ rows = <<>>
    /\ total = 0
    /\ correct = 0
    /\ category_stats = EmptyDict
    /\ i = 0
    /\ prompt = PyStr(<<>>)
    /\ output = PyStr(<<>>)
    /\ res = NoResult
    /\ summary = EmptyDict
    /\ correctness_summary \in
          IF script = "checker" /\ csv_exists THEN {Absent, PriorReport} ELSE {Absent}
    /\ prompts_exists \in IF script = "runner" THEN BOOLEAN ELSE {FALSE}
    /\ prompts = <<>>
    /\ telemetry_history = <<>>
    /\ outputs_csv = NoCsv
    /\ correct_total = 0
    /\ summary_json = Absent
    /\ telemetry_json = Absent
    /\ cats = EmptyDict
    /\ cat_summary = EmptyDict
    /\ archive = FALSE

(***************************************************************************)
(* correctness_checkers.py: main                                           *)
(***************************************************************************)
\* len(sys.argv) < 2: usage, sys.exit(1)
Usage ==
    /\ script = "checker" /\ pc = "start"
    /\ argv = <<>>
    /\ pc' = "exited" /\ exit_code' = 1
    /\ UNCHANGED <<script, exc, rows, summary, correctness_summary>>
    /\ UNCHANGED <<checker_vars, runner_vars, loop_vars>>

\* not os.path.exists(csv_path): sys.exit(1)
FileNotFound ==
    /\ script = "checker" /\ pc = "start"
    /\ argv # <<>> /\ ~csv_exists
    /\ pc' = "exited" /\ exit_code' = 1
    /\ UNCHANGED <<script, exc, rows, summary, correctness_summary>>
    /\ UNCHANGED <<checker_vars, runner_vars, loop_vars>>

\* rows = the rows of csv.DictReader(f)
ReadCsv ==
    /\ script = "checker" /\ pc = "start"
    /\ argv # <<>> /\ csv_exists
    /\ \E fieldnames \in Headers, raws \in BoundedSeq(RawRows, MaxRows) :
          rows' = [k \in 1..Len(raws) |-> DictRow(fieldnames, raws[k])]
    /\ pc' = "read"
    /\ UNCHANGED <<script, exc, exit_code, summary, correctness_summary>>
    /\ UNCHANGED <<checker_vars, runner_vars, loop_vars>>

\* if not rows: sys.exit(0)
NoData ==
    /\ script = "checker" /\ pc = "read"
    /\ no_rows(rows)
    /\ pc' = "exited" /\ exit_code' = 0
    /\ UNCHANGED <<script, exc, rows, summary, correctness_summary>>
    /\ UNCHANGED <<checker_vars, runner_vars, loop_vars>>

\* total = len(rows); correct = 0; category_stats = {}
InitCounters ==
    /\ script = "checker" /\ pc = "read"
    /\ ~no_rows(rows)
    /\ total' = Len(rows)
    /\ correct' = 0
    /\ category_stats' = EmptyDict
    /\ i' = 0
    /\ pc' = "loop"
    /\ UNCHANGED <<script, exc, exit_code, rows, summary, correctness_summary,
                   argv, csv_exists, prompt, output, res>>
    /\ UNCHANGED runner_vars

\* one iteration of "for r in rows"
ProcessRow ==
    /\ script = "checker" /\ pc = "loop"
    /\ i < Len(rows)
    /\ prompt' = get(rows[i + 1], PromptKey, PyStr(<<>>))
    /\ output' = get(rows[i + 1], OutputKey, PyStr(<<>>))
    /\ res' = evaluate_row(prompt', output', MainFrames)
    /\ IF res'.raised
       THEN /\ pc' = "raised" /\ exc' = "AttributeError"
            /\ UNCHANGED <<i, correct, category_stats>>
       ELSE /\ i' = i + 1
            /\ correct' =
                  accumulate([correct |-> correct,
                              category_stats |-> category_stats], res').correct
            /\ category_stats' =
                  accumulate([correct |-> correct,
                              category_stats |-> category_stats],
                             res').category_stats
            /\ UNCHANGED <<pc, exc>>
    /\ UNCHANGED <<script, exit_code, rows, summary, correctness_summary,
                   argv, csv_exists, total>>
    /\ UNCHANGED runner_vars

\* overall_acc and the summary dict
BuildSummary ==
    /\ script = "checker" /\ pc = "loop"
    /\ i = Len(rows)
    /\ IF total = 0
       THEN pc' = "raised" /\ exc' = "ZeroDivisionError" /\ UNCHANGED summary
       ELSE /\ summary' = build_summary(argv[1], total, correct, category_stats)
            /\ pc' = "built"
            /\ UNCHANGED exc
    /\ UNCHANGED <<script, exit_code, rows, correctness_summary>>
    /\ UNCHANGED <<checker_vars, runner_vars, loop_vars>>

\* open(out_path, "w"): the file exists and is empty
OpenReport ==
    /\ script = "checker" /\ pc = "built"
    /\ correctness_summary' = Truncated
    /\ pc' = "opened"
    /\ UNCHANGED <<script, exc, exit_code, rows, summary>>
    /\ UNCHANGED <<checker_vars, runner_vars, loop_vars>>

\* json.dump(summary, f, indent=2), the file closed, the report printed
DumpReport ==
    /\ script = "checker" /\ pc = "opened"
    /\ correctness_summary' = Dumped(summary)
    /\ pc' = "done"
    /\ UNCHANGED <<script, exc, exit_code, rows, summary>>
    /\ UNCHANGED <<checker_vars, runner_vars, loop_vars>>

(***************************************************************************)
(* model_runner_baseline.py                                                *)
(***************************************************************************)
LineFeed == 10  \* "\n"

CarriageReturn == 13  \* "\r"

\* the text a file opened with newline=None yields for what was written:
\* "\r\n" and "\r" both read back as "\n"
universal_newlines(s) ==
    LET marked == [k \in 1..Len(s) |->
                     IF s[k] = LineFeed /\ k > 1 /\ s[k-1] = CarriageReturn
                     THEN NoChar
                     ELSE IF s[k] = CarriageReturn THEN LineFeed ELSE s[k]]
        Kept(c) == c # NoChar
    IN  SelectSeq(marked, Kept)

\* the fields csv.reader yields for a line csv.writer wrote
csv_read_back(fields) == [k \in 1..Len(fields) |-> universal_newlines(fields[k])]

\* str(latency): the clock is opaque, one value stands for all
LatencyText == Chars("0.5")

TrueText == Chars("True")

FalseText == Chars("False")

\* str(is_correct)
bool_text(b) == IF b THEN TrueText ELSE FalseText

\* one psutil snapshot, opaque
Snapshot == "snapshot"

\* Mutant of benchmark_done: the loop stops one prompt early.
benchmark_done_early(n, ps) == n + 1 >= Len(ps)

\* the for loop over prompts has run out
benchmark_done(n, ps) == n >= Len(ps)

\* not os.path.exists(args.prompts): raise FileNotFoundError
PromptsNotFound ==
    /\ script = "runner" /\ pc = "start"
    /\ ~prompts_exists
    /\ pc' = "raised" /\ exc' = "FileNotFoundError"
    /\ UNCHANGED <<script, exit_code, rows, summary, correctness_summary>>
    /\ UNCHANGED <<checker_vars, runner_vars, loop_vars>>

\* data = json.load(f); prompts = data.get("prompts", []) or data
LoadPrompts ==
    /\ script = "runner" /\ pc = "start"
    /\ prompts_exists
    /\ \E data \in PromptData :
          prompts' = IF data.kind = "dict" THEN get(data.items, "prompts", <<>>)
                     ELSE data.items
    /\ pc' = "loaded"
    /\ UNCHANGED <<script, exc, exit_code, rows, summary, correctness_summary>>
    /\ UNCHANGED <<prompts_exists, telemetry_history, outputs_csv, correct_total,
                   summary_json, telemetry_json, cats, cat_summary, archive>>
    /\ UNCHANGED <<checker_vars, loop_vars>>

\* if not prompts: raise ValueError
NoPrompts ==
    /\ script = "runner" /\ pc = "loaded"
    /\ prompts = <<>>
    /\ pc' = "raised" /\ exc' = "ValueError"
    /\ UNCHANGED <<script, exit_code, rows, summary, correctness_summary>>
    /\ UNCHANGED <<checker_vars, runner_vars, loop_vars>>

\* the run directory made, the model loaded, outputs.csv opened and its
\* header written, correct_total = 0
OpenOutputs ==
    /\ script = "runner" /\ pc = "loaded"
    /\ prompts # <<>>
    /\ outputs_csv' = [exists |-> TRUE,
                       header |-> RunnerHeader,
                       lines  |-> <<>>]
    /\ correct_total' = 0
    /\ i' = 0
    /\ pc' = "bench"
    /\ UNCHANGED <<script, exc, exit_code, rows, summary, correctness_summary>>
    /\ UNCHANGED <<prompts_exists, prompts, telemetry_history, summary_json,
                   telemetry_json, cats, cat_summary, archive>>
    /\ UNCHANGED <<checker_vars, prompt, output, res>>

\* one iteration of "for i, prompt in enumerate(prompts)"; the generation
\* service returns a text or raises
RunPrompt ==
    /\ script = "runner" /\ pc = "bench"
    /\ ~benchmark_done(i, prompts)
    /\ telemetry_history' = Append(telemetry_history, Snapshot)
    /\ prompt' = PyStr(prompts[i + 1])
    /\ \/ /\ pc' = "raised" /\ exc' = "GenerationError"
          /\ UNCHANGED <<i, output, res, correct_total, outputs_csv>>
       \/ \E out_text \in OutputTexts :
             /\ output' = PyStr(out_text)
             /\ res' = evaluate_row(prompt', output', RunnerFrames)
             /\ correct_total' = IF res'.correct THEN correct_total + 1
                                 ELSE correct_total
             /\ outputs_csv' =
                   [outputs_csv EXCEPT !.lines =
                       Append(@, <<prompts[i + 1], out_text, LatencyText,
                                   bool_text(res'.correct)>>)]
             /\ i' = i + 1
             /\ UNCHANGED <<pc, exc>>
    /\ UNCHANGED <<script, exit_code, rows, summary, correctness_summary>>
    /\ UNCHANGED <<prompts_exists, prompts, summary_json, telemetry_json, cats,
                   cat_summary, archive>>
    /\ UNCHANGED checker_vars

\* the summary dict
SummaryDict ==
    /\ script = "runner" /\ pc = "bench"
    /\ benchmark_done(i, prompts)
    /\ summary' = [model            |-> "args.model",
                   prompts_file     |-> "args.prompts",
                   timestamp        |-> "time.time()",
                   total_prompts    |-> Len(prompts),
                   correct          |-> correct_total,
                   accuracy_percent |-> round_percent(correct_total, Len(prompts))]
    /\ pc' = "summary_built"
    /\ UNCHANGED <<script, exc, exit_code, rows, correctness_summary>>
    /\ UNCHANGED <<checker_vars, runner_vars, loop_vars>>

\* open(summary_json_path, "w"): the file exists and is empty
OpenSummary ==
    /\ script = "runner" /\ pc = "summary_built"
    /\ summary_json' = Truncated
    /\ pc' = "summary_opened"
    /\ UNCHANGED <<script, exc, exit_code, rows, summary, correctness_summary>>
    /\ UNCHANGED <<prompts_exists, prompts, telemetry_history, outputs_csv,
                   correct_total, telemetry_json, cats, cat_summary, archive>>
    /\ UNCHANGED <<checker_vars, loop_vars>>

\* json.dump(summary, f, indent=2), the file closed
DumpSummary ==
    /\ script = "runner" /\ pc = "summary_opened"
    /\ summary_json' = Dumped(summary)
    /\ pc' = "summarised"
    /\ UNCHANGED <<script, exc, exit_code, rows, summary, correctness_summary>>
    /\ UNCHANGED <<prompts_exists, prompts, telemetry_history, outputs_csv,
                   correct_total, telemetry_json, cats, cat_summary, archive>>
    /\ UNCHANGED <<checker_vars, loop_vars>>

\* open(telemetry_path, "w"): the file exists and is empty
OpenTelemetry ==
    /\ script = "runner" /\ pc = "summarised"
    /\ telemetry_json' = Truncated
    /\ pc' = "telemetry_opened"
    /\ UNCHANGED <<script, exc, exit_code, rows, summary, correctness_summary>>
    /\ UNCHANGED <<prompts_exists, prompts, telemetry_history, outputs_csv,
                   correct_total, summary_json, cats, cat_summary, archive>>
    /\ UNCHANGED <<checker_vars, loop_vars>>

\* json.dump(telemetry_history, f, indent=2), the file closed
DumpTelemetry ==
    /\ script = "runner" /\ pc = "telemetry_opened"
    /\ telemetry_json' = Dumped(telemetry_history)
    /\ pc' = "telemetry"
    /\ UNCHANGED <<script, exc, exit_code, rows, summary, correctness_summary>>
    /\ UNCHANGED <<prompts_exists, prompts, telemetry_history, outputs_csv,
                   correct_total, summary_json, cats, cat_summary, archive>>
    /\ UNCHANGED <<checker_vars, loop_vars>>

\* rows = list(csv.DictReader(f)) over outputs.csv; cats = {}
ReadOutputs ==
    /\ script = "runner" /\ pc = "telemetry"
    /\ rows' = [k \in 1..Len(outputs_csv.lines) |->
                  DictRow(outputs_csv.header, csv_read_back(outputs_csv.lines[k]))]
    /\ cats' = EmptyDict
    /\ i' = 0
    /\ pc' = "cats"
    /\ UNCHANGED <<script, exc, exit_code, summary, correctness_summary>>
    /\ UNCHANGED <<prompts_exists, prompts, telemetry_history, outputs_csv,
                   correct_total, summary_json, telemetry_json, cat_summary, archive>>
    /\ UNCHANGED <<checker_vars, prompt, output, res>>

\* one iteration of "for r in rows" of the per-category count
CountRow ==
    /\ script = "runner" /\ pc = "cats"
    /\ i < Len(rows)
    /\ prompt' = rows[i + 1][PromptKey]
    /\ output' = rows[i + 1][OutputKey]
    /\ res' = evaluate_row(prompt', output', RunnerFrames)
    /\ IF res'.raised
       THEN pc' = "raised" /\ exc' = "AttributeError" /\ UNCHANGED <<i, cats>>
       ELSE /\ i' = i + 1
            /\ cats' = accumulate([correct |-> 0, category_stats |-> cats],
                                  res').category_stats
            /\ UNCHANGED <<pc, exc>>
    /\ UNCHANGED <<script, exit_code, rows, summary, correctness_summary>>
    /\ UNCHANGED <<prompts_exists, prompts, telemetry_history, outputs_csv,
                   correct_total, summary_json, telemetry_json, cat_summary, archive>>
    /\ UNCHANGED checker_vars

\* the cat_summary dict
BuildCatSummary ==
    /\ script = "runner" /\ pc = "cats"
    /\ i = Len(rows)
    /\ cat_summary' = [overall_accuracy |-> summary.accuracy_percent,
                       per_category     |-> per_category(cats, FALSE)]
    /\ pc' = "cat_built"
    /\ UNCHANGED <<script, exc, exit_code, rows, summary, correctness_summary>>
    /\ UNCHANGED <<prompts_exists, prompts, telemetry_history, outputs_csv,
                   correct_total, summary_json, telemetry_json, cats, archive>>
    /\ UNCHANGED <<checker_vars, loop_vars>>

\* open(correctness_summary_path, "w"): the file exists and is empty
OpenCorrectness ==
    /\ script = "runner" /\ pc = "cat_built"
    /\ correctness_summary' = Truncated
    /\ pc' = "cat_opened"
    /\ UNCHANGED <<script, exc, exit_code, rows, summary>>
    /\ UNCHANGED <<checker_vars, runner_vars, loop_vars>>

\* json.dump(cat_summary, f, indent=2), the file closed
DumpCorrectness ==
    /\ script = "runner" /\ pc = "cat_opened"
    /\ correctness_summary' = Dumped(cat_summary)
    /\ pc' = "cat_saved"
    /\ UNCHANGED <<script, exc, exit_code, rows, summary>>
    /\ UNCHANGED <<checker_vars, runner_vars, loop_vars>>

\* shutil.make_archive(run_dir, "zip", run_dir)
MakeArchive ==
    /\ script = "runner" /\ pc = "cat_saved"
    /\ archive' = TRUE
    /\ pc' = "done"
    /\ UNCHANGED <<script, exc, exit_code, rows, summary, correctness_summary>>
    /\ UNCHANGED <<prompts_exists, prompts, telemetry_history, outputs_csv,
                   correct_total, summary_json, telemetry_json, cats, cat_summary>>
    /\ UNCHANGED <<checker_vars, loop_vars>>

Next ==
    \/ Usage
    \/ FileNotFound
    \/ ReadCsv
    \/ NoData
    \/ InitCounters
    \/ ProcessRow
    \/ BuildSummary
    \/ OpenReport
    \/ DumpReport
    \/ PromptsNotFound
    \/ LoadPrompts
    \/ NoPrompts
    \/ OpenOutputs
    \/ RunPrompt
    \/ SummaryDict
    \/ OpenSummary
    \/ DumpSummary
    \/ OpenTelemetry
    \/ DumpTelemetry
    \/ ReadOutputs
    \/ CountRow
    \/ BuildCatSummary
    \/ OpenCorrectness
    \/ DumpCorrectness
    \/ MakeArchive

Spec == Init /\ [][Next]_vars

(***************************************************************************)
(* Properties.                                                             *)
(***************************************************************************)
Labels == {"math", "code", "json", "writing", "general"}

RECURSIVE Sum(_, _, _)
\* the sum of f[c][field] over c in S
Sum(f, S, field) ==
    IF S = {} THEN 0
    ELSE LET c == CHOOSE c \in S : TRUE
         IN  f[c][field] + Sum(f, S \ {c}, field)

\* a row has been evaluated and its result is in res
Evaluated == pc # "raised" /\ res.category # ""

CheckerLooping == script = "checker" /\ pc \in {"loop", "raised"}

CheckerSummarised == script = "checker" /\ pc \in {"built", "opened", "done"}

\* C1 (as stated): the emitted summary has total = number of rows and its
\* per-category totals and corrects sum to total and correct, and the global
\* counters equal the per-category sums after every processed prefix too.
C1_PrefixSums ==
    /\ CheckerSummarised =>
          /\ summary.total = Len(rows)
          /\ Sum(summary.per_category, DOMAIN summary.per_category, "total")
                = summary.total
          /\ Sum(summary.per_category, DOMAIN summary.per_category, "correct")
                = summary.correct
    /\ CheckerLooping =>
          /\ Sum(category_stats, DOMAIN category_stats, "total") = total
          /\ Sum(category_stats, DOMAIN category_stats, "correct") = correct

\* C1 (amended): the emitted summary has total = number of rows and its
\* per-category totals and corrects sum to total and correct; after every
\* processed prefix the per-category corrects sum to the global correct and
\* the per-category totals sum to the number of rows processed so far, while
\* the global total is the number of all rows from the start.
C1_Aggregation ==
    /\ CheckerSummarised =>
          /\ summary.total = Len(rows)
          /\ Sum(summary.per_category, DOMAIN summary.per_category, "total")
                = summary.total
          /\ Sum(summary.per_category, DOMAIN summary.per_category, "correct")
                = summary.correct
    /\ CheckerLooping =>
          /\ Sum(category_stats, DOMAIN category_stats, "total") = i
          /\ Sum(category_stats, DOMAIN category_stats, "correct") = correct
          /\ total = Len(rows)

\* a report of three rows in two or more categories, not all correct
C1_Witness ==
    /\ script = "checker" /\ pc = "done"
    /\ Len(rows) >= 3
    /\ Cardinality(DOMAIN summary.per_category) >= 2
    /\ summary.correct >= 1 /\ summary.correct < summary.total

\* the ordered rules of the categorizer, as the specification lists them
Rules ==
    <<[label |-> "math",
       keywords |-> {Chars("derivative"), Chars("integral"), Chars("solve")}],
      [label |-> "code",
       keywords |-> {Chars("python"), Chars("code"), Chars("function")}],
      [label |-> "json",
       keywords |-> {Chars("json"), Chars("object"), Chars("key")}],
      [label |-> "writing",
       keywords |-> {Chars("story"), Chars("write"), Chars("poem")}]>>

\* the rules with a keyword occurring in p_lower
MatchedRules(p_lower) ==
    {k \in 1..Len(Rules) : \E w \in Rules[k].keywords : contains(w, p_lower)}

FirstOf(hits) == IF hits = {} THEN "general" ELSE Rules[SetMin(hits)].label

FirstMatch(p_lower) == FirstOf(MatchedRules(p_lower))

\* C2: every evaluated row gets one label of the five, the label of the
\* earliest rule (math, code, json, writing) with a keyword occurring in the
\* lower-cased prompt, general when no rule matches.
C2_FirstMatchWins ==
    Evaluated =>
        /\ res.category \in Labels
        /\ res.category = FirstMatch(lower(prompt.s))

\* the prompt and the output main's loop reads from row k of the table
RowPrompt(k) == get(rows[k], PromptKey, PyStr(<<>>))

RowOutput(k) == get(rows[k], OutputKey, PyStr(<<>>))

\* a report on three rows whose prompts match the rules (math, code),
\* (code, json) and (json, writing): one row was counted under each of math,
\* code and json, none under writing
C2_Witness ==
    /\ script = "checker" /\ pc = "done"
    /\ Len(rows) = 3
    /\ \A k \in 1..3 :
          /\ ~RowPrompt(k).none
          /\ MatchedRules(lower(RowPrompt(k).s)) = {k, k + 1}
    /\ DOMAIN category_stats = {"math", "code", "json"}
    /\ \A c \in DOMAIN category_stats : category_stats[c].total = 1

\* C3: correctness_summary.json is never observable partially written: at
\* every instant it is absent or holds a complete report.
C3_AtomicReport ==
    correctness_summary.exists => Len(correctness_summary.text) = 1

\* C4: every report written to correctness_summary.json has exactly the
\* top-level fields file, total, correct, accuracy_percent, per_category, and
\* each per_category record exactly accuracy_percent, correct, total.
C4_ReportFields ==
    \A k \in 1..Len(correctness_summary.text) :
        LET report == correctness_summary.text[k]
        IN  /\ DOMAIN report =
                  {"file", "total", "correct", "accuracy_percent", "per_category"}
            /\ \A c \in DOMAIN report["per_category"] :
                  /\ c \in Labels
                  /\ DOMAIN report["per_category"][c] =
                        {"accuracy_percent", "correct", "total"}

\* C5: evaluating a delivered row never raises, and an empty or absent
\* prompt gives category general, an empty or absent output correct = false.
C5_NeverRaises ==
    /\ exc # "AttributeError"
    /\ ~res.raised
    /\ (Evaluated /\ prompt.s = <<>>) => res.category = "general" /\ ~res.correct
    /\ (Evaluated /\ output.s = <<>>) => ~res.correct

\* the sequence in the order perm gives
Permuted(seq, perm) == [k \in 1..Len(seq) |-> seq[perm[k]]]

\* C6: the summary of a run equals the summary the aggregation loop gives
\* when the evaluated rows are folded in any other order: total, correct,
\* accuracy_percent and the per-category mapping.
C6_Commutative ==
    CheckerSummarised =>
        LET results == [k \in 1..Len(rows) |-> row_result(rows[k])]
        IN  \A perm \in Permutations(1..Len(rows)) :
                aggregate(argv[1], Permuted(results, perm)) = summary

\* a finished run over distinct rows, two of one category with different
\* verdicts
C6_Witness ==
    /\ script = "checker" /\ pc = "done"
    /\ Len(rows) >= 2 /\ rows[1] # rows[2]
    /\ \E c \in DOMAIN category_stats :
          category_stats[c].total = 2 /\ category_stats[c].correct = 1

\* the set of the first n items of words
FirstItems(words, n) == {words[k] : k \in {k \in 1..Len(words) : k <= n}}

\* the first three whitespace-delimited tokens of the lower-cased prompt p
PromptTokens(p) == FirstItems(split(lower(p)), 3)

\* the trimmed, lower-cased output o
Trimmed(o) == strip(lower(o))

\* the whitespace-delimited tokens of the trimmed, lower-cased output o
TokensOf(o) == FirstItems(split(Trimmed(o)), Len(split(Trimmed(o))))

FirstThreeTokens == PromptTokens(prompt.s)

OutputTokens == TokensOf(output.s)

\* C7 (as stated): a general row is correct exactly when its trimmed,
\* lower-cased output is longer than 5 characters and one of its tokens equals
\* one of the first three prompt tokens.
C7_TokenEquality ==
    (Evaluated /\ res.category = "general") =>
        (res.correct <=>
            /\ Len(Trimmed(output.s)) > 5
            /\ FirstThreeTokens \cap OutputTokens # {})

\* C7 (amended): a general row is correct exactly when its trimmed,
\* lower-cased output is longer than 5 characters and one of the first three
\* prompt tokens occurs in it as a substring.
C7_TokenSubstring ==
    (Evaluated /\ res.category = "general") =>
        (res.correct <=>
            /\ Len(Trimmed(output.s)) > 5
            /\ \E w \in FirstThreeTokens : contains(w, Trimmed(output.s)))

\* one of the first three tokens of the prompt of row k occurs in the
\* trimmed, lower-cased output of row k
TokenOccurs(k) ==
    \E w \in PromptTokens(RowPrompt(k).s) : contains(w, Trimmed(RowOutput(k).s))

\* a report on three general rows, two of them counted correct: in one a
\* prompt token occurs in an output of more than 5 characters and is none of
\* its tokens, in one a prompt token occurs in an output of 5 characters or
\* fewer, and in one the prompt holds a capital letter outside ASCII
C7_Witness ==
    /\ script = "checker" /\ pc = "done"
    /\ Len(rows) = 3
    /\ \A k \in 1..3 : ~RowPrompt(k).none /\ ~RowOutput(k).none
    /\ DOMAIN category_stats = {"general"}
    /\ category_stats["general"] = [total |-> 3, correct |-> 2]
    /\ \E k \in 1..3 :
          /\ TokenOccurs(k) /\ Len(Trimmed(RowOutput(k).s)) > 5
          /\ PromptTokens(RowPrompt(k).s) \cap TokensOf(RowOutput(k).s) = {}
    /\ \E k \in 1..3 :
          TokenOccurs(k) /\ Len(Trimmed(RowOutput(k).s)) <= 5
    /\ \E k \in 1..3 :
          /\ TokenOccurs(k)
          /\ \E n \in 1..Len(RowPrompt(k).s) :
                /\ RowPrompt(k).s[n] > 127
                /\ ToLowerFull(RowPrompt(k).s[n]) # <<RowPrompt(k).s[n]>>

RunnerFiles == <<summary_json, telemetry_json, correctness_summary, archive>>

\* C8: no division by a zero total is executed; the checker gets past its
\* table check only with a table that exists and has rows, the runner past
\* its prompt check only with prompts; and a run on a missing or empty input
\* leaves the report as it was and writes no other artifact.
C8_NoReportWithoutRows ==
    /\ exc # "ZeroDivisionError"
    /\ (script = "checker" /\ pc \in {"loop", "raised", "built", "opened", "done"})
          => csv_exists /\ rows # <<>>
    /\ (script = "checker" /\ pc = "exited")
          => correctness_summary \in {Absent, PriorReport}
    /\ (script = "runner" /\ exc \notin {"FileNotFoundError", "ValueError"}
                          /\ pc \notin {"start", "loaded"})
          => prompts_exists /\ prompts # <<>>
    /\ (script = "runner" /\ exc \in {"FileNotFoundError", "ValueError"})
          => RunnerFiles = <<Absent, Absent, Absent, FALSE>> /\ ~outputs_csv.exists

\* the checker ended on a table that exists and has no rows
C8_Witness ==
    /\ script = "checker" /\ pc = "exited" /\ exit_code = 0
    /\ csv_exists /\ rows = <<>>

StatsBounds(stats) ==
    \A c \in DOMAIN stats :
        /\ stats[c].total >= 1
        /\ 0 <= stats[c].correct /\ stats[c].correct <= stats[c].total

StatsGrow(old, new, cat) ==
    /\ \A c \in DOMAIN old :
          /\ c \in DOMAIN new
          /\ new[c].total >= old[c].total
          /\ new[c].correct >= old[c].correct
          /\ c # cat => new[c] = old[c]
    /\ DOMAIN new \ DOMAIN old \subseteq {cat}

\* C9: in every state of either accumulation loop every category entry has
\* total >= 1 and 0 <= correct <= total, and a step never removes an entry,
\* never decreases a counter, and changes or creates only the entry of the
\* category of the row it processed.
C9_CategoryStats ==
    /\ [](StatsBounds(category_stats) /\ StatsBounds(cats))
    /\ [][/\ StatsGrow(category_stats, category_stats', res'.category)
          /\ StatsGrow(cats, cats', res'.category)]_vars

\* two categories seen, one of them twice with one correct row
C9_Witness ==
    \E stats \in {category_stats, cats} :
        /\ Cardinality(DOMAIN stats) >= 2
        /\ \E c \in DOMAIN stats : stats[c].total = 2 /\ stats[c].correct = 1

\* every prompt has been processed, in input order: outputs.csv has one data
\* row per prompt, in the order of the prompts, and one telemetry sample was
\* taken per prompt
AllPromptsProcessed ==
    /\ Len(outputs_csv.lines) = Len(prompts)
    /\ \A k \in 1..Len(prompts) : outputs_csv.lines[k][1] = prompts[k]
    /\ Len(telemetry_history) = Len(prompts)

\* the counts of a summary agree with outputs.csv and the telemetry samples
SummaryCounts(doc) ==
    /\ doc.total_prompts = Len(outputs_csv.lines)
    /\ doc.total_prompts = Len(telemetry_history)
    /\ 0 <= doc.correct /\ doc.correct <= doc.total_prompts

\* after a failed generation there is no summary.json, correctness_summary.json
\* or archive
NoArtifactsAfterFailure ==
    exc = "GenerationError" =>
        /\ ~summary_json.exists
        /\ ~correctness_summary.exists
        /\ ~archive

\* C10 (as stated): summary.json exists only once every prompt has been
\* processed, in input order; whenever it exists it holds a summary whose
\* total_prompts is the number of data rows of outputs.csv and of telemetry
\* samples, with 0 <= correct <= total_prompts; after a failed generation
\* there is no summary.json, correctness_summary.json or archive.
C10_SummaryWheneverExists ==
    script = "runner" =>
        /\ summary_json.exists =>
              /\ AllPromptsProcessed
              /\ Len(summary_json.text) = 1
              /\ SummaryCounts(summary_json.text[1])
        /\ NoArtifactsAfterFailure

\* C10 (amended): summary.json exists only once every prompt has been
\* processed, in input order; it is created empty and then holds one summary,
\* and whenever it holds a summary the total_prompts of it is the number of
\* data rows of outputs.csv and of telemetry samples, with
\* 0 <= correct <= total_prompts; correctness_summary.json and the archive
\* come after the summary; after a failed generation there is no
\* summary.json, correctness_summary.json or archive.
C10_SummaryAfterAllPrompts ==
    script = "runner" =>
        /\ summary_json.exists => AllPromptsProcessed
        /\ Len(summary_json.text) <= 1
        /\ \A k \in 1..Len(summary_json.text) : SummaryCounts(summary_json.text[k])
        /\ (correctness_summary.exists \/ archive) => Len(summary_json.text) = 1
        /\ NoArtifactsAfterFailure

\* a finished run of two or more prompts, some but not all correct
C10_Witness ==
    /\ script = "runner" /\ pc = "done" /\ archive
    /\ Len(prompts) >= 2
    /\ summary_json.text = <<summary>>
    /\ summary.correct >= 1 /\ summary.correct < summary.total_prompts
============================================================================
